---- MODULE Spec2Model ----
(***************************************************************************)
(* Model of the ImageCompressor component (src/src/App.js) and of the      *)
(* Slider it uses (src/unnamed/part_000).                                  *)
(*                                                                         *)
(* The component is a React function component.  Its state is the useState *)
(* cells, the two refs (genRef, canvasRef), the browser's object-URL       *)
(* store, and the compressImage invocations that are in flight.  Every     *)
(* action below is one JavaScript task: an event handler, the flush of the *)
(* passive effects of a commit, or the part of compressImage that runs     *)
(* between two awaits.                                                     *)
(***************************************************************************)
EXTENDS Integers, Naturals, Sequences, FiniteSets, TLC

(* ------------------------------ bounds -------------------------------- *)
\* largest image side that is enumerated (sides are 0..MaxDim)
MaxDim == 2
\* how many files the user uploads in one behaviour
MaxUploads == 2
\* how many compressImage invocations are started in one behaviour
MaxInv == 2
\* slider positions that are enumerated besides the two ends of the range
MaxSlide == 2
\* direct calls of compressImage(kValue) in the pipeline specification
MaxCalls == 2
\* the kValue of a direct call ranges over -MaxNegK .. MaxKArg
MaxNegK == 2
MaxKArg == 3

(* ------------------------- program constants -------------------------- *)
\* useState(20)
InitK == 20
\* <Slider min={1} max={100} step={1} .../>
SliderMin == 1
SliderMax == 100
SliderStep == 1
\* the bitmap of a canvas element that was never sized is 300 x 150
DefaultCanvasW == 300
DefaultCanvasH == 150

Min(a, b) == IF a <= b THEN a ELSE b
Max(a, b) == IF a >= b THEN a ELSE b

(* ------------------------------- values ------------------------------- *)
\* useState(null): no file chosen yet
NoFile == [id |-> 0, w |-> 0, h |-> 0, ok |-> FALSE]
\* the empty string of useState("")
NoURL == 0
\* what an object URL refers to: an uploaded file (by = 0) or the JPEG blob
\* that invocation `by` obtained from canvas.toBlob.  src is the id of the
\* file the raster was computed from, kept the number of singular
\* components in it, w and h the dimensions of the encoded raster.
NoBlob == [by |-> 0, src |-> 0, kept |-> 0, w |-> 0, h |-> 0]
FileObject(f) == [by |-> 0, src |-> f.id, kept |-> 0, w |-> f.w, h |-> f.h]

VARIABLES
  file,           \* useState(null)
  origURL,        \* useState("")
  compressedURL,  \* useState("")
  k,              \* useState(20)
  origSize,       \* useState(0)
  compSize,       \* useState(0)
  isCompressing,  \* useState(false)
  genRef,         \* useRef(0).current
  canvas,         \* canvasRef.current: the one hidden <canvas>
  store,          \* every object URL ever created -> what it refers to
  urls,           \* the object URLs that are not revoked
  inv,            \* the compressImage invocations, in the order they started
  nUploads,       \* how many files were uploaded
  pendKF,         \* the effect on [k, file] of a commit has not run yet
  pendClosure,    \* the state that effect's render closed over
  pendRevoke,     \* URLs the pending effect cleanups will revoke
  cleanupFn,      \* the (origURL, compressedURL) the installed cleanup holds
  recon,          \* the raster writer's input: recon, row by row
  outData,        \* the raster writer's out.data, four channels a pixel
  pxDone          \* how many pixels the writer's loop has written

vars == <<file, origURL, compressedURL, k, origSize, compSize, isCompressing,
          genRef, canvas, store, urls, inv, nUploads,
          pendKF, pendClosure, pendRevoke, cleanupFn, recon, outData, pxDone>>

\* the state of the component, and the state of the raster writer's loop
compVars == <<file, origURL, compressedURL, k, origSize, compSize,
              isCompressing, genRef, canvas, store, urls, inv, nUploads,
              pendKF, pendClosure, pendRevoke, cleanupFn>>
pixVars == <<recon, outData, pxDone>>


(* ------------------- the pipeline, lines 44 to 89 --------------------- *)
\* ctx.getImageData(0, 0, sw, sh) throws IndexSizeError when sw or sh is 0
GetImageDataThrowsWidthOnly(sw, sh) == sw = 0
GetImageDataThrows(sw, sh) == sw = 0 \/ sh = 0

\* const tall = height >= width
TallStrict(width, height) == height > width
Tall(width, height) == height >= width

\* mat = tall ? gray : numeric.transpose(gray): gray is transposed
TransposedFwd(width, height) == ~Tall(width, height)
\* if (!tall) recon = numeric.transpose(recon): recon is transposed back
TransposedBack(width, height) == ~Tall(width, height)

\* mat = tall ? gray : numeric.transpose(gray); m = mat.length
MatRows(width, height) == IF Tall(width, height) THEN height ELSE width
\* n = mat[0].length
MatCols(width, height) == IF Tall(width, height) THEN width ELSE height

\* const maxRank = Math.min(m, n)
MaxRank(m, n) == Min(m, n)

\* const kEff = Math.min(kValue, maxRank)
KEffMax(kValue, maxRank) == Max(kValue, maxRank)
KEff(kValue, maxRank) == Min(kValue, maxRank)

\* the length of a.slice(0, end) for an array a of length len: a negative
\* end counts from the end of the array, an end beyond len stops at len
SliceLen(len, end) ==
  IF end < 0 THEN Max(len + end, 0) ELSE Min(end, len)

\* U.map(row => row.slice(0, kEff)), S.slice(0, kEff), V.map(...): U has n
\* columns, S has n entries and V has n columns, so each keeps
\* SliceLen(n, kEff) singular components
Kept(n, kEff) == SliceLen(n, kEff)

\* recon = dot(Uk, dot(Sk, transpose(VkT))) is m x n;
\* if (!tall) recon = numeric.transpose(recon)
ReconShapeNoBack(width, height) ==
  [rows |-> MatRows(width, height), cols |-> MatCols(width, height)]
ReconShape(width, height) ==
  IF Tall(width, height)
  THEN [rows |-> MatRows(width, height), cols |-> MatCols(width, height)]
  ELSE [rows |-> MatCols(width, height), cols |-> MatRows(width, height)]

\* recon[r][c] for r < height throws a TypeError when recon has fewer than
\* height rows (recon[r] is undefined)
WriteThrows(shape, width, height) == width > 0 /\ shape.rows < height

\* canvas.width = img.width; canvas.height = img.height
CanvasSizeSwapped(img) == [w |-> img.h, h |-> img.w]
CanvasSize(img) == [w |-> img.w, h |-> img.h]

\* const myGen = ++genRef.current
NextGenSame(cur) == cur
NextGen(cur) == cur + 1

\* if (genRef.current !== myGen) return;
IsStaleNever(cur, myGen) == FALSE
IsStale(cur, myGen) == cur # myGen

\* blob.size: the JPEG encoder is outside the repository; the size is a
\* positive number determined by the encoded raster
BlobSize(b) == 1 + b.w * b.h + b.kept

\* f.size of an uploaded file
FileSize(f) == 1 + f.id

\* the stages of the synchronous run, in the order of the lines: the
\* luminance matrix (49 to 58), the orientation and numeric.svd (60 to 68),
\* the truncated product and the transpose back (70 to 75), the raster and
\* the toBlob call (77 to 89)
PipelineOrderSwapped ==
  <<"Decomposing", "Projecting", "Reconstructing", "Writing">>
PipelineOrder ==
  <<"Projecting", "Decomposing", "Reconstructing", "Writing">>
\* the stages a run has entered when it is in its n-th
Entered(n) == SubSeq(PipelineOrder, 1, n)

\* one compressImage invocation.  trace lists the stages it entered; it, fin
\* and cvBy record the run and are read
\* by no line of the program: the position in the order of finishing, and
\* the invocation that had painted the canvas last when the toBlob callback
\* ran.
NoInv ==
  [pc |-> "idle", myGen |-> 0, kValue |-> 0, file |-> NoFile, src |-> NoURL,
   cURL |-> NoURL, live |-> FALSE, kEff |-> 0, kept |-> 0, err |-> "none",
   shape |-> [rows |-> 0, cols |-> 0], out |-> [w |-> 0, h |-> 0],
   blob |-> NoBlob, fin |-> 0, cvBy |-> 0,
   mat |-> [rows |-> 0, cols |-> 0], fwd |-> FALSE, back |-> FALSE,
   trace |-> << >>]

\* the hidden canvas: its size, the invocation that sized and painted it
\* last, and what it shows ("blank", the "drawn" source image, or the
\* "recon" raster of putImageData, with that raster's source and rank)
BlankCanvas ==
  [w |-> DefaultCanvasW, h |-> DefaultCanvasH, by |-> 0, what |-> "blank",
   src |-> 0, kept |-> 0]


(* ------------------------------ the state ------------------------------ *)
\* the values a render closes over: compressImage and the effects read
\* file, origURL, compressedURL and k of the render that created them
Closure(f, o, c, kk) == [file |-> f, origURL |-> o, compressedURL |-> c, k |-> kk]

\* the state once the component is mounted: no file, so the first effect
\* on [k, file] started nothing, and the cleanup holds two empty strings
InitComp ==
  /\ file = NoFile
  /\ origURL = NoURL
  /\ compressedURL = NoURL
  /\ k = InitK
  /\ origSize = 0
  /\ compSize = 0
  /\ isCompressing = FALSE
  /\ genRef = 0
  /\ canvas = BlankCanvas
  /\ store = << >>
  /\ urls = {}
  /\ inv = << >>
  /\ nUploads = 0
  /\ pendKF = FALSE
  /\ pendClosure = Closure(NoFile, NoURL, NoURL, InitK)
  /\ pendRevoke = {}
  /\ cleanupFn = [o |-> NoURL, c |-> NoURL]

\* no raster is being written
InitNoPix ==
  /\ recon = << >>
  /\ outData = << >>
  /\ pxDone = 0

Init == InitComp /\ InitNoPix

\* effects of the last commit are still to be flushed
Pending == pendKF \/ pendRevoke # {}

\* the cleanup of useEffect(..., [origURL, compressedURL]) revokes the two
\* URLs of the render that installed it, the empty string excepted
CleanupRevokes == {cleanupFn.o, cleanupFn.c} \ {NoURL}

\* the same for a Slider used without min={1}: its min defaults to 0
SlideInputsDefaultMin ==
  {v \in 0..SliderMax :
     /\ v % SliderStep = 0
     /\ (v <= MaxSlide - 1 \/ v = SliderMax)}
\* the values the slider can deliver that are enumerated
SlideInputs ==
  {v \in SliderMin..SliderMax :
     /\ (v - SliderMin) % SliderStep = 0
     /\ (v <= SliderMin + MaxSlide - 1 \/ v = SliderMax)}

(* ------------------------------ handlers ------------------------------ *)
\* the files the user chooses from: images of these sizes <<w, h>> (square,
\* wide, tall, empty) and a file that does not decode as an image
UploadSizes == {<<2, 2>>, <<2, 1>>, <<1, 2>>, <<0, 1>>}
UploadChoices ==
  {[w |-> sz[1], h |-> sz[2], ok |-> TRUE] : sz \in UploadSizes}
    \cup {[w |-> 0, h |-> 0, ok |-> FALSE]}

\* handleUpload with a chosen file of w x h pixels; ok: the file decodes
\* as an image.  React flushes pending passive effects before it renders
\* again, so the handler's commit follows the flush.
HandleUpload(w, h, ok) ==
  /\ nUploads < MaxUploads
  /\ Len(inv) < MaxInv
  /\ ~Pending
  /\ LET f == [id |-> nUploads + 1, w |-> w, h |-> h, ok |-> ok]
         u == Len(store) + 1
     IN /\ urls' = (urls \ {origURL, compressedURL}) \cup {u}
        /\ store' = Append(store, FileObject(f))
        /\ file' = f
        /\ origURL' = u
        /\ origSize' = FileSize(f)
        /\ compressedURL' = NoURL
        /\ compSize' = 0
        /\ pendKF' = TRUE
        /\ pendClosure' = Closure(f, u, NoURL, k)
        /\ pendRevoke' = pendRevoke \cup CleanupRevokes
        /\ cleanupFn' = [o |-> u, c |-> NoURL]
  /\ nUploads' = nUploads + 1
  /\ UNCHANGED <<k, isCompressing, genRef, canvas, inv, pixVars>>

\* Slider.handleChange: onValueChange([Number(e.target.value)]) -> setK(val)
SliderChange(v) ==
  /\ v # k
  /\ file = NoFile \/ Len(inv) < MaxInv
  /\ ~Pending
  /\ k' = v
  /\ pendKF' = TRUE
  /\ pendClosure' = Closure(file, origURL, compressedURL, v)
  /\ UNCHANGED <<file, origURL, compressedURL, origSize, compSize,
                 isCompressing, genRef, canvas, store, urls, inv, nUploads,
                 pendRevoke, cleanupFn, pixVars>>

(* ---------------------------- compressImage ---------------------------- *)
\* lines 36 to 42 of an invocation with the closure c: tag, flag, start the
\* decode of c.origURL; live: that URL is not revoked when img.src is set
StartInv(c, kValue, liveURLs) ==
  [NoInv EXCEPT !.pc = "decode", !.myGen = NextGen(genRef),
                !.kValue = kValue, !.file = c.file, !.src = c.origURL,
                !.cURL = c.compressedURL, !.live = c.origURL \in liveURLs,
                !.trace = <<"Idle">>]

\* the passive effects of a commit: the cleanups first, then
\* useEffect(() => { if (file) compressImage(k) }, [k, file])
RunEffects ==
  /\ Pending
  /\ urls' = urls \ pendRevoke
  /\ pendRevoke' = {}
  /\ pendKF' = FALSE
  /\ IF pendKF /\ pendClosure.file # NoFile
     THEN /\ inv' = Append(inv, StartInv(pendClosure, pendClosure.k, urls'))
          /\ genRef' = NextGen(genRef)
          /\ isCompressing' = TRUE
     ELSE UNCHANGED <<inv, genRef, isCompressing>>
  /\ UNCHANGED <<file, origURL, compressedURL, k, origSize, compSize, canvas,
                 store, nUploads, pendClosure, cleanupFn, pixVars>>

\* the invocations that returned or threw
Finished == {i \in 1..Len(inv) : inv[i].pc \in {"done", "stale", "failed"}}
\* the position of the next one to finish in the order of finishing (a
\* record of the order of completion, read by no line of the program)
FinStamp == Cardinality(Finished) + 1

\* a rejection handler that clears the output (what the code does not do)
DecodeRejectClearsOutput(i) ==
  /\ i \in 1..Len(inv)
  /\ inv[i].pc = "decode"
  /\ ~inv[i].file.ok \/ ~inv[i].live
  /\ inv' = [inv EXCEPT ![i].pc = "failed", ![i].err = "DecodeError",
                        ![i].fin = FinStamp,
                        ![i].trace = inv[i].trace \o <<"Failed">>]
  /\ compressedURL' = NoURL
  /\ compSize' = 0
  /\ UNCHANGED <<file, origURL, k, origSize,
                 isCompressing, genRef, canvas, store, urls, nUploads,
                 pendKF, pendClosure, pendRevoke, cleanupFn, pixVars>>

\* await img.decode() rejects: the file is no image, or the object URL was
\* revoked before img.src was set and the image is not kept by the browser
DecodeReject(i) ==
  /\ i \in 1..Len(inv)
  /\ inv[i].pc = "decode"
  /\ ~inv[i].file.ok \/ ~inv[i].live
  /\ inv' = [inv EXCEPT ![i].pc = "failed", ![i].err = "DecodeError",
                        ![i].fin = FinStamp,
                        ![i].trace = inv[i].trace \o <<"Failed">>]
  /\ UNCHANGED <<file, origURL, compressedURL, k, origSize, compSize,
                 isCompressing, genRef, canvas, store, urls, nUploads,
                 pendKF, pendClosure, pendRevoke, cleanupFn, pixVars>>


\* canvas.toBlob(resolve, "image/jpeg", 0.9) copies the bitmap when it is
\* called and encodes the copy in the background
Snapshot(cv) ==
  [by |-> cv.by, src |-> cv.src, kept |-> cv.kept, w |-> cv.w, h |-> cv.h]

\* the blob the toBlob callback delivers: the encoding of the copy made at
\* the call, whatever the canvas shows when the callback runs
DeliveredBlobLate(atCall, atCallback) == atCallback
DeliveredBlob(atCall, atCallback) == atCall

\* lines 44 to 89, one synchronous run after the decode resolved, for
\* invocation i.  svdOK: numeric.svd converged (it throws otherwise);
\* dotOK: numeric.dot accepted the operands of a product with no component
\* kept (the library is not part of the repository: both outcomes).
\* The result is the invocation's new record and the canvas it leaves.
SyncBlock(i, svdOK, dotOK) ==
  LET me     == inv[i]
      img    == [w |-> me.file.w, h |-> me.file.h]
      size   == CanvasSize(img)
      width  == img.w
      height == img.h
      m      == MatRows(width, height)
      n      == MatCols(width, height)
      kEff   == KEff(me.kValue, MaxRank(m, n))
      kept   == Kept(n, kEff)
      shape  == ReconShape(width, height)
      mat    == [rows |-> m, cols |-> n]
      fwd    == TransposedFwd(width, height)
      back   == TransposedBack(width, height)
      drawn  == [w |-> size.w, h |-> size.h, by |-> i, what |-> "drawn",
                 src |-> me.file.id, kept |-> 0]
      put    == [drawn EXCEPT !.what = "recon", !.kept = kept]
  IN  IF GetImageDataThrows(img.w, img.h)
      THEN [inv |-> [me EXCEPT !.pc = "failed", !.err = "InvalidDimensions",
                               !.trace = me.trace \o Entered(1)
                                                  \o <<"Failed">>],
            canvas |-> [drawn EXCEPT !.what = "blank"]]
      ELSE IF ~svdOK
      THEN [inv |-> [me EXCEPT !.pc = "failed", !.err = "NumericalFailure",
                               !.kEff = kEff, !.mat = mat, !.fwd = fwd,
                               !.trace = me.trace \o Entered(2)
                                                  \o <<"Failed">>],
            canvas |-> drawn]
      ELSE IF kept = 0 /\ ~dotOK
      THEN [inv |-> [me EXCEPT !.pc = "failed", !.err = "DotError",
                               !.kEff = kEff, !.kept = kept,
                               !.mat = mat, !.fwd = fwd,
                               !.trace = me.trace \o Entered(3)
                                                  \o <<"Failed">>],
            canvas |-> drawn]
      ELSE IF WriteThrows(shape, width, height)
      THEN [inv |-> [me EXCEPT !.pc = "failed", !.err = "TypeError",
                               !.kEff = kEff, !.kept = kept, !.shape = shape,
                               !.mat = mat, !.fwd = fwd, !.back = back,
                               !.trace = me.trace \o Entered(4)
                                                  \o <<"Failed">>],
            canvas |-> drawn]
      ELSE [inv |-> [me EXCEPT !.pc = "encode", !.kEff = kEff, !.kept = kept,
                               !.shape = shape,
                               !.mat = mat, !.fwd = fwd, !.back = back,
                               !.trace = me.trace \o Entered(4),
                               !.out = [w |-> width, h |-> height],
                               !.blob = Snapshot(put)],
            canvas |-> put]

\* await img.decode() resolves and the invocation runs up to its next await
DecodeResolve(i) ==
  /\ i \in 1..Len(inv)
  /\ inv[i].pc = "decode"
  /\ inv[i].file.ok
  /\ \E svdOK \in BOOLEAN :
       \E dotOK \in BOOLEAN :
         LET r == SyncBlock(i, svdOK, dotOK)
         IN /\ inv' = [inv EXCEPT ![i] =
                          IF r.inv.pc = "failed"
                          THEN [r.inv EXCEPT !.fin = FinStamp] ELSE r.inv]
            /\ canvas' = r.canvas
  /\ UNCHANGED <<file, origURL, compressedURL, k, origSize, compSize,
                 isCompressing, genRef, store, urls, nUploads,
                 pendKF, pendClosure, pendRevoke, cleanupFn, pixVars>>

\* the toBlob callback resolves the await of line 89; lines 91 to 96
BlobReady(i) ==
  /\ i \in 1..Len(inv)
  /\ inv[i].pc = "encode"
  /\ LET blob == DeliveredBlob(inv[i].blob, Snapshot(canvas))
         u    == Len(store) + 1
     IN IF IsStale(genRef, inv[i].myGen)
        THEN /\ inv' = [inv EXCEPT ![i].pc = "stale", ![i].blob = blob,
                                     ![i].fin = FinStamp,
                                     ![i].cvBy = canvas.by,
                                     ![i].trace = inv[i].trace \o <<"Done">>]
             /\ UNCHANGED <<compressedURL, compSize, isCompressing, store,
                            urls, pendRevoke, cleanupFn>>
        ELSE /\ inv' = [inv EXCEPT ![i].pc = "done", ![i].blob = blob,
                                     ![i].fin = FinStamp,
                                     ![i].cvBy = canvas.by,
                                     ![i].trace = inv[i].trace \o <<"Done">>]
             /\ urls' = (urls \ {inv[i].cURL}) \cup {u}
             /\ store' = Append(store, blob)
             /\ compSize' = BlobSize(blob)
             /\ compressedURL' = u
             /\ isCompressing' = FALSE
             /\ pendRevoke' = pendRevoke \cup CleanupRevokes
             /\ cleanupFn' = [o |-> origURL, c |-> u]
  /\ UNCHANGED <<file, origURL, k, origSize, genRef, canvas, nUploads,
                 pendKF, pendClosure, pixVars>>

(* ------------------------- the component's steps ----------------------- *)
Upload == \E c \in UploadChoices : HandleUpload(c.w, c.h, c.ok)
Slide == \E v \in SlideInputs : SliderChange(v)
Reject == \E i \in 1..Len(inv) : DecodeReject(i)
Resolve == \E i \in 1..Len(inv) : DecodeResolve(i)
Encoded == \E i \in 1..Len(inv) : BlobReady(i)

Next == Upload \/ Slide \/ RunEffects \/ Reject \/ Resolve \/ Encoded

Spec == Init /\ [][Next]_vars

TypeOK ==
  /\ k \in SliderMin..SliderMax
  /\ genRef = Len(inv)
  /\ urls \subseteq 1..Len(store)
  /\ \A i \in 1..Len(inv) :
       inv[i].pc \in {"decode", "encode", "done", "stale", "failed"}


(* ----------------- the pipeline as a function of kValue ---------------- *)
\* the files of the pipeline specification: every image of 0..MaxDim by
\* 0..MaxDim pixels, and a file that does not decode
PipeChoices ==
  {[w |-> w, h |-> h, ok |-> TRUE] : w \in 0..MaxDim, h \in 0..MaxDim}
    \cup {[w |-> 0, h |-> 0, ok |-> FALSE]}

\* compressImage(kValue) called on an uploaded w x h image with any
\* integer kValue, the values the slider never delivers included
InitPipe ==
  /\ \E c \in PipeChoices :
       LET f == [id |-> 1, w |-> c.w, h |-> c.h, ok |-> c.ok]
       IN /\ file = f
          /\ origSize = FileSize(f)
          /\ store = << FileObject(f) >>
  /\ origURL = 1
  /\ urls = {1}
  /\ nUploads = 1
  /\ cleanupFn = [o |-> 1, c |-> NoURL]
  /\ compressedURL = NoURL
  /\ k = InitK
  /\ compSize = 0
  /\ isCompressing = FALSE
  /\ genRef = 0
  /\ canvas = BlankCanvas
  /\ inv = << >>
  /\ pendKF = FALSE
  /\ pendClosure = Closure(NoFile, NoURL, NoURL, InitK)
  /\ pendRevoke = {}
  /\ InitNoPix

\* compressImage(kValue), lines 35 to 42, with the current render's closure
CompressImage(kValue) ==
  /\ Len(inv) < MaxCalls
  /\ file # NoFile
  /\ inv' = Append(inv, StartInv(Closure(file, origURL, compressedURL, k),
                                 kValue, urls))
  /\ genRef' = NextGen(genRef)
  /\ isCompressing' = TRUE
  /\ UNCHANGED <<file, origURL, compressedURL, k, origSize, compSize, canvas,
                 store, urls, nUploads, pendKF, pendClosure, pendRevoke,
                 cleanupFn, pixVars>>

Call == \E kValue \in (0 - MaxNegK)..MaxKArg : CompressImage(kValue)

NextPipe == Call \/ Reject \/ Resolve \/ Encoded

SpecPipe == InitPipe /\ [][NextPipe]_vars

(* ------------------- the raster writer, lines 78 to 86 ----------------- *)
\* A reconstructed value is a number, held as a count of quarters (q = 4v),
\* or one of NaN, +Infinity, -Infinity.
Num(q) == [kind |-> "num", q |-> q]
NaN == [kind |-> "nan", q |-> 0]
PosInf == [kind |-> "pinf", q |-> 0]
NegInf == [kind |-> "ninf", q |-> 0]

\* Math.max(a, b): NaN if either is NaN
MathMax(a, b) ==
  IF a.kind = "nan" \/ b.kind = "nan" THEN NaN
  ELSE IF a.kind = "pinf" \/ b.kind = "pinf" THEN PosInf
  ELSE IF a.kind = "ninf" THEN b
  ELSE IF b.kind = "ninf" THEN a
  ELSE IF a.q >= b.q THEN a ELSE b

\* Math.min(a, b): NaN if either is NaN
MathMin(a, b) ==
  IF a.kind = "nan" \/ b.kind = "nan" THEN NaN
  ELSE IF a.kind = "ninf" \/ b.kind = "ninf" THEN NegInf
  ELSE IF a.kind = "pinf" THEN b
  ELSE IF b.kind = "pinf" THEN a
  ELSE IF a.q <= b.q THEN a ELSE b

\* const lum = Math.min(Math.max(recon[r][c], 0), 255)
LumSwapped(v) == MathMax(MathMin(v, Num(0)), Num(4 * 255))
Lum(v) == MathMin(MathMax(v, Num(0)), Num(4 * 255))

\* floor(q / 4) for a count of quarters
FloorQ(q) == q \div 4

\* a store into out.data, a Uint8ClampedArray (ToUint8Clamp): NaN is 0, the
\* value is clamped to 0..255 and rounded to the nearest integer, a tie to
\* the even one
ToUint8Truncate(x) ==
  IF x.kind = "nan" THEN 0
  ELSE IF x.kind = "pinf" THEN 255
  ELSE IF x.kind = "ninf" THEN 0
  ELSE IF x.q <= 0 THEN 0
  ELSE IF x.q >= 4 * 255 THEN 255
  ELSE FloorQ(x.q)
ToUint8Clamp(x) ==
  IF x.kind = "nan" THEN 0
  ELSE IF x.kind = "pinf" THEN 255
  ELSE IF x.kind = "ninf" THEN 0
  ELSE IF x.q <= 0 THEN 0
  ELSE IF x.q >= 4 * 255 THEN 255
  ELSE LET f == FloorQ(x.q)
       IN IF 4 * f + 2 < x.q THEN f + 1
          ELSE IF x.q < 4 * f + 2 THEN f
          ELSE IF f % 2 = 0 THEN f ELSE f + 1

\* out.data[idx + 3] = 255
Opaque == 255

\* the pixel of one iteration of the loop body, lines 81 to 84
PixelOf(v) ==
  LET lum == Lum(v)
  IN << ToUint8Clamp(lum), ToUint8Clamp(lum), ToUint8Clamp(lum), Opaque >>

\* the reconstructed values that are enumerated: the quarters within Spread
\* of 0 and of 255, and the three values that are not finite
Spread == 8
MaxPix == 2
ReconValues ==
  {Num(q) : q \in (0 - Spread)..Spread}
    \cup {Num(q) : q \in (4 * 255 - Spread)..(4 * 255 + Spread)}
    \cup {NaN, PosInf, NegInf}

\* ctx.createImageData(width, height): every channel is 0
InitPix ==
  /\ InitComp
  /\ \E np \in 1..MaxPix :
       /\ recon \in [1..np -> ReconValues]
       /\ outData = [p \in 1..np |-> <<0, 0, 0, 0>>]
  /\ pxDone = 0

\* one iteration of the loops of lines 79 and 80
WritePixel ==
  /\ pxDone < Len(recon)
  /\ outData' = [outData EXCEPT ![pxDone + 1] = PixelOf(recon[pxDone + 1])]
  /\ pxDone' = pxDone + 1
  /\ UNCHANGED <<compVars, recon>>

NextPix == WritePixel

SpecPix == InitPix /\ [][NextPix]_vars


(* -------------------------------- claims ------------------------------- *)
\* what the component shows as the compressed image
Visible == IF compressedURL = NoURL THEN NoBlob ELSE store[compressedURL]
\* invocation i got its blob: it ran to line 91
HasBlob(i) == inv[i].pc \in {"encode", "done", "stale"}

\* C1: a step changes the visible output (compressedURL, compSize) to a
\* result only if it is the step of lines 91 to 96 of an invocation whose
\* myGen equals genRef.current in the state the step starts from, and the
\* output it sets is that invocation's blob; no other invocation carries
\* the same tag; an invocation whose tag differs returns at line 91 and
\* leaves compressedURL and compSize as they were.
C1_GenerationGate ==
  [][ /\ ( \/ (compressedURL' # compressedURL /\ compressedURL' # NoURL)
           \/ (compSize' # compSize /\ compSize' # 0) )
         => \E i \in 1..Len(inv) :
              /\ inv[i].pc = "encode" /\ inv'[i].pc = "done"
              /\ inv[i].myGen = genRef
              /\ store'[compressedURL'].by = i
              /\ compSize' = BlobSize(store'[compressedURL'])
              /\ \A j \in (1..Len(inv)) \ {i} : inv[j].myGen # genRef
      /\ \A i \in 1..Len(inv) :
           (inv[i].pc = "encode" /\ inv[i].myGen # genRef)
             => /\ inv'[i].pc \in {"encode", "stale"}
                /\ inv'[i].pc = "stale"
                     => compressedURL' = compressedURL /\ compSize' = compSize
    ]_vars

\* C1 witness: one invocation was discarded as stale and a later one
\* published its own blob
C1_Witness ==
  \E i \in 1..Len(inv) : \E j \in 1..Len(inv) :
    /\ inv[i].pc = "stale" /\ inv[j].pc = "done"
    /\ Visible.by = j

\* C2: two requests i, then j, for the image that is still the current
\* one, j being the last request made: once both ran to line 91, in either
\* order, the visible output is the blob of j, computed with j's k.
C2_LastRequestWins ==
  \A i \in 1..Len(inv) : \A j \in 1..Len(inv) :
    ( /\ i < j /\ j = Len(inv)
      /\ inv[i].file = inv[j].file /\ file = inv[j].file
      /\ inv[i].pc \in {"done", "stale"} /\ inv[j].pc \in {"done", "stale"} )
    => /\ compressedURL # NoURL
       /\ Visible.by = j
       /\ Visible.src = file.id
       /\ Visible.kept = KEff(inv[j].kValue, MaxRank(file.h, file.w))
       /\ compSize = BlobSize(Visible)

\* C2 witness: the earlier request finished after the later one, with
\* another k, and both ran to line 91
C2_Witness ==
  \E i \in 1..Len(inv) : \E j \in 1..Len(inv) :
    /\ i < j /\ j = Len(inv)
    /\ inv[i].file = inv[j].file /\ file = inv[j].file
    /\ inv[i].kValue # inv[j].kValue
    /\ inv[i].kept # inv[j].kept
    /\ inv[i].pc = "stale" /\ inv[j].pc = "done"
    /\ inv[i].fin > inv[j].fin

\* C3: the visible compressed output is never a result computed from
\* another file than the current one.
C3_NoOutputOfPreviousImage ==
  compressedURL # NoURL => Visible.src = file.id

\* C4: the step in which an invocation fails changes neither compressedURL
\* nor compSize nor any object URL's blob, and does not revoke the URL on
\* display; a failed invocation stays failed, and no object URL holds a
\* blob of an invocation that did not publish.
C4_FailurePublishesNothing ==
  [][ /\ \A i \in 1..Len(inv) :
           /\ (inv[i].pc # "failed" /\ inv'[i].pc = "failed")
                => /\ compressedURL' = compressedURL
                   /\ compSize' = compSize
                   /\ store' = store
                   /\ (compressedURL \in urls => compressedURL \in urls')
           /\ inv[i].pc = "failed" => inv'[i] = inv[i]
      /\ \A u \in 1..Len(store) :
           store[u].by # 0 => inv[store[u].by].pc = "done"
    ]_vars

\* C4 witness: an invocation failed, in its decode or in the
\* decomposition, while the output of an earlier invocation for the same
\* image is on display
C4_Witness ==
  \E i \in 1..Len(inv) :
    /\ inv[i].pc = "failed"
    /\ inv[i].err \in {"DecodeError", "NumericalFailure"}
    /\ inv[i].file = file
    /\ compressedURL # NoURL
    /\ Visible.by # 0 /\ Visible.by < i


\* C5: an invocation called with kValue <= 0 never gets as far as a
\* reconstruction: it writes no raster, obtains no blob and publishes
\* nothing.
C5_NonPositiveRankRejected ==
  \A i \in 1..Len(inv) : inv[i].kValue <= 0 => ~HasBlob(i)

\* C6: an invocation with kValue >= 1 that reconstructs keeps exactly
\* min(kValue, min(M, N)) singular components of the M x N luminance
\* matrix, and fails, if it fails, in the decode, on an empty raster or in
\* the decomposition, never because of its rank; two invocations on the
\* same image, one with kValue > min(M, N) and one with
\* kValue = min(M, N), obtain the same raster.
C6_EffectiveRank ==
  \A i \in 1..Len(inv) :
    LET M == inv[i].file.h
        N == inv[i].file.w
    IN inv[i].kValue >= 1 =>
         /\ HasBlob(i) =>
              /\ inv[i].kEff = Min(inv[i].kValue, Min(M, N))
              /\ inv[i].kept = inv[i].kEff
              /\ inv[i].blob.kept = inv[i].kEff
         /\ inv[i].pc = "failed" =>
              inv[i].err \in {"DecodeError", "InvalidDimensions",
                              "NumericalFailure"}
         /\ \A j \in 1..Len(inv) :
              ( /\ HasBlob(i) /\ HasBlob(j)
                /\ inv[j].file = inv[i].file
                /\ inv[i].kValue > Min(M, N)
                /\ inv[j].kValue = Min(M, N) )
              => [inv[i].blob EXCEPT !.by = 0] = [inv[j].blob EXCEPT !.by = 0]

\* C6 witness: a request above min(M, N) and a request equal to it both
\* reconstructed a 2 x 2 image, and a third case, a request below it, is
\* covered by the same image with k = 1 in other behaviours
C6_Witness ==
  \E i \in 1..Len(inv) : \E j \in 1..Len(inv) :
    /\ HasBlob(i) /\ HasBlob(j)
    /\ inv[i].kValue > Min(file.h, file.w)
    /\ inv[j].kValue = Min(file.h, file.w)
    /\ Min(file.h, file.w) >= 2

\* C7: the raster of an invocation that wrote one (the image data, the
\* canvas it is put on and the blob encoded from it) is W wide and H high,
\* W x H being the size of the decoded image, and recon has H rows of W
\* values, for tall and for wide images alike.
C7_OutputDimensions ==
  \A i \in 1..Len(inv) :
    HasBlob(i) =>
      /\ inv[i].out = [w |-> inv[i].file.w, h |-> inv[i].file.h]
      /\ inv[i].blob.w = inv[i].file.w
      /\ inv[i].blob.h = inv[i].file.h
      /\ inv[i].shape = [rows |-> inv[i].file.h, cols |-> inv[i].file.w]

\* C7 witness: a wide image (W > H), transposed before the decomposition,
\* was written and encoded
C7_Witness ==
  \E i \in 1..Len(inv) :
    /\ HasBlob(i)
    /\ inv[i].file.w > inv[i].file.h
    /\ ~Tall(inv[i].file.w, inv[i].file.h)

\* C10: an invocation whose decode resolved fails with the dimension error
\* exactly when its raster has width 0 or height 0; it then has no blob
\* and nothing is published for it.
C10_InvalidDimensions ==
  \A i \in 1..Len(inv) :
    (inv[i].pc # "decode" /\ inv[i].err # "DecodeError") =>
      /\ (inv[i].err = "InvalidDimensions")
           <=> (inv[i].file.w = 0 \/ inv[i].file.h = 0)
      /\ inv[i].err = "InvalidDimensions" =>
           /\ inv[i].pc = "failed"
           /\ inv[i].blob = NoBlob
           /\ \A u \in 1..Len(store) : store[u].by # i

\* C10 witness: an image of positive width and height 0 failed
C10_Witness ==
  \E i \in 1..Len(inv) :
    /\ inv[i].err = "InvalidDimensions"
    /\ inv[i].file.w >= 1 /\ inv[i].file.h = 0


\* the value v clamped to 0..255, in quarters, for a v that is a number
ClampQ(q) == IF q < 0 THEN 0 ELSE IF q > 4 * 255 THEN 4 * 255 ELSE q
Dist(a, b) == IF a >= b THEN a - b ELSE b - a

\* C8: every pixel the loop has written has R = G = B = c and A = 255 with
\* c an integer of 0..255; for a number v, c is the integer nearest to
\* clamp(v, 0, 255), the even one of the two when v is halfway; c is 255
\* for +Infinity and 0 for -Infinity.
C8_PixelClamped ==
  \A p \in 1..pxDone :
    LET v  == recon[p]
        px == outData[p]
        c  == px[1]
    IN /\ px[2] = c /\ px[3] = c /\ px[4] = 255
       /\ c \in 0..255
       /\ v.kind = "num" =>
            /\ Dist(4 * c, ClampQ(v.q)) <= 2
            /\ Dist(4 * c, ClampQ(v.q)) = 2 => c % 2 = 0
       /\ v.kind = "pinf" => c = 255
       /\ v.kind = "ninf" => c = 0

\* C8 witness: the loop wrote a value that is not finite and a value
\* halfway between two integers; values below 0 and above 255 are written
\* in other behaviours of the same specification
C8_Witness ==
  /\ pxDone = 2
  /\ recon[1].kind # "num"
  /\ recon[2].kind = "num" /\ recon[2].q % 4 = 2 /\ recon[2].q > 0

\* C9 as stated: while an invocation waits for its blob, the canvas it
\* painted is still as it left it, and the blob it has or gets is its own
\* reconstruction.
C9_CanvasKeptUntilBlob ==
  \A i \in 1..Len(inv) :
    /\ inv[i].pc = "encode" => canvas.by = i
    /\ HasBlob(i) => inv[i].blob.by = i

\* C9 as amended: the canvas is sized and painted only inside the
\* synchronous run of lines 44 to 89 of one invocation, which ends with the
\* toBlob call that copies the bitmap; another invocation may repaint the
\* canvas before the callback, and the blob is all the same the encoding of
\* the invocation's own reconstruction (its image, its rank, its size).
C9_BlobIsOwnReconstruction ==
  [][ /\ canvas' # canvas =>
           \E i \in 1..Len(inv) :
             /\ inv[i].pc = "decode" /\ inv'[i].pc \in {"encode", "failed"}
             /\ canvas'.by = i
             /\ \A j \in (1..Len(inv)) \ {i} : inv'[j] = inv[j]
      /\ \A i \in 1..Len(inv') :
           inv'[i].pc \in {"encode", "done", "stale"} =>
             inv'[i].blob = [by |-> i, src |-> inv'[i].file.id,
                             kept |-> inv'[i].kept,
                             w |-> inv'[i].file.w, h |-> inv'[i].file.h]
    ]_vars

\* C9 witness: an invocation published its blob although another
\* invocation had repainted the canvas before the callback ran
C9_Witness ==
  \E i \in 1..Len(inv) :
    /\ inv[i].pc = "done"
    /\ inv[i].cvBy # i
    /\ Visible.by = i


\* C12: an invocation that passes the file check is entered, in the step
\* that starts it and before its first await, with a tag equal to the new
\* genRef.current, which is greater than the old one and than the tag of
\* every earlier invocation; genRef.current never decreases, a tag never
\* changes, and the tags increase strictly in the order of submission.
C12_GenerationTags ==
  [][ /\ genRef' >= genRef
      /\ Len(inv') > Len(inv) =>
           /\ Len(inv') = Len(inv) + 1
           /\ inv'[Len(inv')].pc = "decode"
           /\ inv'[Len(inv')].myGen = genRef'
           /\ genRef' > genRef
           /\ \A i \in 1..Len(inv) : inv[i].myGen < inv'[Len(inv')].myGen
      /\ \A i \in 1..Len(inv) : inv'[i].myGen = inv[i].myGen
      /\ \A i \in 1..Len(inv) : \A j \in 1..Len(inv) :
           i < j => inv[i].myGen < inv[j].myGen
    ]_vars

\* C12 witness: two invocations were started, the second while the first
\* was still running
C12_Witness ==
  /\ Len(inv) >= 2
  /\ inv[1].pc \in {"decode", "encode"}
  /\ inv[2].myGen > inv[1].myGen
  /\ genRef = inv[2].myGen


\* invocation i handed a matrix to numeric.svd
Decomposed(i) ==
  \/ HasBlob(i)
  \/ inv[i].err \in {"NumericalFailure", "DotError", "TypeError"}

\* C13: the matrix an invocation hands to numeric.svd has at least as many
\* rows as columns; it is the transpose of the H x W luminance matrix
\* exactly when H < W and the luminance matrix itself otherwise; recon is
\* transposed back exactly when the forward transpose was applied, and is
\* then H x W again.
C13_Orientation ==
  \A i \in 1..Len(inv) :
    LET W == inv[i].file.w
        H == inv[i].file.h
    IN /\ Decomposed(i) =>
            /\ inv[i].mat.rows >= inv[i].mat.cols
            /\ inv[i].fwd <=> (H < W)
            /\ inv[i].mat = IF H < W THEN [rows |-> W, cols |-> H]
                                     ELSE [rows |-> H, cols |-> W]
       /\ HasBlob(i) =>
            /\ inv[i].back <=> inv[i].fwd
            /\ inv[i].shape = [rows |-> H, cols |-> W]

\* C13 witness: a wide image was transposed, decomposed, reconstructed and
\* transposed back; square and tall images are decomposed as they are in
\* other behaviours
C13_Witness ==
  \E i \in 1..Len(inv) :
    /\ HasBlob(i)
    /\ inv[i].file.h < inv[i].file.w
    /\ inv[i].fwd /\ inv[i].back


\* the order of the stages the specification names
StageOrder ==
  <<"Idle", "Projecting", "Decomposing", "Reconstructing", "Writing", "Done">>
IsPrefix(t, c) ==
  Len(t) <= Len(c) /\ \A x \in 1..Len(t) : t[x] = c[x]
LastOf(t) == t[Len(t)]

\* C14: the stages an invocation has entered are an initial part of Idle,
\* Projecting, Decomposing, Reconstructing, Writing, Done (Done being
\* entered at line 91, whether the result is then published or dropped as
\* stale), or such a part that stops before Done followed by Failed; a step
\* only appends to them, and nothing is appended after Done or Failed.
C14_StageOrder ==
  [][ \A i \in 1..Len(inv) :
        LET t == inv[i].trace
        IN /\ Len(t) >= 1
           /\ \/ IsPrefix(t, StageOrder)
              \/ /\ LastOf(t) = "Failed"
                 /\ Len(t) <= Len(StageOrder)
                 /\ IsPrefix(SubSeq(t, 1, Len(t) - 1), StageOrder)
           /\ (inv[i].pc = "failed") <=> (LastOf(t) = "Failed")
           /\ (inv[i].pc \in {"done", "stale"}) <=> (LastOf(t) = "Done")
           /\ (inv[i].pc = "decode") <=> (LastOf(t) = "Idle")
           /\ (inv[i].pc = "encode") <=> (LastOf(t) = "Writing")
           /\ IsPrefix(t, inv'[i].trace)
           /\ LastOf(t) \in {"Done", "Failed"} => inv'[i].trace = t
    ]_vars

\* C14 witness: one invocation went through every stage to Done and another
\* failed in Decomposing
C14_Witness ==
  \E i \in 1..Len(inv) : \E j \in 1..Len(inv) :
    /\ inv[i].trace = StageOrder
    /\ inv[j].trace = <<"Idle", "Projecting", "Decomposing", "Failed">>


\* C15: the object URL in origURL is not revoked as long as it is the
\* current source image.
C15_OrigURLNotRevoked ==
  origURL # NoURL => origURL \in urls

\* C16: when every started invocation has returned or thrown and no effect
\* is waiting to start another, isCompressing is false.
C16_FlagResetWhenIdle ==
  ( /\ \A i \in 1..Len(inv) : inv[i].pc \in {"done", "stale", "failed"}
    /\ ~Pending )
  => isCompressing = FALSE

\* C17: the k of the component and the kValue of every invocation it starts
\* are integers of 1..100, and every invocation that computed kEff has
\* kEff >= 1 (and keeps at least one singular component).
C17_SliderRank ==
  /\ k \in 1..100
  /\ \A i \in 1..Len(inv) :
       /\ inv[i].kValue \in 1..100
       /\ Decomposed(i) => inv[i].kEff >= 1
       /\ HasBlob(i) => inv[i].kept >= 1

\* C17 witness: an invocation started after the slider was moved to its
\* maximum reconstructed a 2 x 2 image with kEff = 2, after an invocation
\* with the initial k
C17_Witness ==
  \E i \in 1..Len(inv) : \E j \in 1..Len(inv) :
    /\ inv[i].kValue = InitK
    /\ inv[j].kValue = SliderMax /\ HasBlob(j)
    /\ inv[j].kEff = 2

====
